---- MODULE Spec2Model ----
(***************************************************************************)
(* Model of the GitLab change-detection plugins: the commit query client   *)
(* (plugins/utils/gitlab.py), its result model (gitlab_result.py), the     *)
(* connection hook (hooks/gitlab_hook.py), the deferrable trigger          *)
(* GitlabRepoChangedTrigger (triggers/gitlab_trigger.py) and the blocking  *)
(* sensor GitLabRepoChangeDetectionSensor.poke (sensors/gitlab_sensor.py). *)
(*                                                                         *)
(* The trigger's run() is a coroutine: one action of the model is the code *)
(* that runs between two suspension points (an awaited query, the awaited  *)
(* inter-cycle sleep, the yield of an event).                              *)
(***************************************************************************)
EXTENDS Integers, Sequences, FiniteSets, TLC

VARIABLES
    task,           \* which operator the DAG run uses: "trigger" or "sensor"
    conn,           \* the Airflow connection: is a password / a host set
    projects,       \* self.projects: the dict's keys in iteration order
    check_runs,     \* self.check_runs
    runs,           \* self.runs
    changed_repos,  \* the local list changed_repos of run()
    idx,            \* position of the for loop over self.projects.items()
    pc,             \* where the coroutine (or the sensor) stands
    events,         \* payloads of the TriggerEvents yielded so far, read now
    queries,        \* history: the queries issued, as [cycle, project]
    cycles,         \* history: cycles started, over all trigger instances
    cancelled_at,   \* suspension point at which the host cancelled, or "none"
    error,          \* the exception that escaped run() / poke(), or NoExc
    last_call,      \* history: the last commit query, its outcome and result
    xcom,           \* values the sensor pushed to XCom
    answers,        \* history: the results returned in the current cycle
    found           \* history: targets with a changed result in this run()

vars == <<task, conn, projects, check_runs, runs, changed_repos, idx, pc,
          events, queries, cycles, cancelled_at, error, last_call, xcom,
          answers, found>>

---------------------------------------------------------------------------
(* Bounds of the model *)

MaxRuns == 2
MaxCycles == 3
MaxCommits == 1

Repos == {101, 202}
Statuses == {200, 404, 500}

---------------------------------------------------------------------------
(* Values: exceptions, call results, remote outcomes *)

None == "None"

Exc(type, text) == [type |-> type, text |-> text]
NoExc == Exc("none", "")
NoValue == [absent |-> TRUE]

\* the result of a call: a returned value or a raised exception
Returned(v) == [raised |-> FALSE, value |-> v, exc |-> NoExc]
Raised(e) == [raised |-> TRUE, value |-> NoValue, exc |-> e]

\* `except Exception` catches every exception but the BaseException-only ones
IsException(e) == e.type \notin {"CancelledError", "KeyboardInterrupt", "none"}

\* str(exception); str(KeyError('commits')) is the repr of the key
str(e) == e.text

\* response bodies: a JSON list of n commits, a JSON object, unparseable
\* text; the bytes are UTF-8, or they are in the charset the Content-Type
\* header declares and hold a non-ASCII character (no valid UTF-8)
Bodies == {[json |-> "list", n |-> k, charset |-> "utf-8"] : k \in 0..MaxCommits}
            \cup {[json |-> "object", n |-> 0, charset |-> "utf-8"],
                  [json |-> "invalid", n |-> 0, charset |-> "utf-8"]}
            \cup {[json |-> "list", n |-> k, charset |-> "iso-8859-1"] :
                     k \in 1..MaxCommits}
            \cup {[json |-> "object", n |-> 0, charset |-> "iso-8859-1"]}
NoBody == [json |-> "none", n |-> 0, charset |-> "utf-8"]

\* exceptions the HTTP libraries raise for a timeout or a transport failure
NetworkErrors == {Exc("TimeoutError", "timed out"),
                  Exc("ClientConnectorError", "connection refused")}

\* what the remote side can do with one request
Response(s, b) == [kind |-> "response", status |-> s, body |-> b, exc |-> NoExc]
Failure(e) == [kind |-> "exception", status |-> 0, body |-> NoBody, exc |-> e]
Outcomes == {Response(s, b) : s \in Statuses, b \in Bodies}
              \cup {Failure(e) : e \in NetworkErrors}
NoOutcome == [kind |-> "none", status |-> 0, body |-> NoBody, exc |-> NoExc]

---------------------------------------------------------------------------
(* plugins/utils/gitlab_result.py *)

\* CommitResult.__init__
CommitResult(status, message, success, commits) ==
    [status |-> status, message |-> message, success |-> success,
     commits |-> commits]

\* CommitResult.commits (property): [] when the stored list is falsy
commits_of(r) == IF Len(r.commits) = 0 THEN <<>> ELSE r.commits

\* CommitResult.result_from_dict: result[k] raises KeyError(k) for the first
\* of status, message, success, commits that the dict lacks
result_from_dict(result) ==
    IF "status" \notin DOMAIN result THEN Raised(Exc("KeyError", "'status'"))
    ELSE IF "message" \notin DOMAIN result THEN Raised(Exc("KeyError", "'message'"))
    ELSE IF "success" \notin DOMAIN result THEN Raised(Exc("KeyError", "'success'"))
    ELSE IF "commits" \notin DOMAIN result THEN Raised(Exc("KeyError", "'commits'"))
    ELSE Returned(CommitResult(result["status"], result["message"],
                               result["success"], result["commits"]))

---------------------------------------------------------------------------
(* plugins/utils/gitlab.py *)

STATUS_OK == 200
STATUS_ERROR == 600

\* dict.update(kwargs)
dict_update(d, kwargs) ==
    [k \in (DOMAIN d) \cup (DOMAIN kwargs) |->
        IF k \in DOMAIN kwargs THEN kwargs[k] ELSE d[k]]

\* Gitlab.__get_default_result(): no 'commits' key
get_default_result == [success |-> TRUE, message |-> None, status |-> 200]

\* __set_result taking success from the status alone
set_result_status_only(result, status, success, message, kwargs) ==
    dict_update([result EXCEPT !["status"] = status,
                               !["message"] = message,
                               !["success"] = (status = 200)],
                kwargs)

\* Gitlab.__set_result(result, status, success, message, **kwargs)
set_result(result, status, success, message, kwargs) ==
    dict_update([result EXCEPT !["status"] = status,
                               !["message"] = message,
                               !["success"] = success /\ status = 200],
                kwargs)

\* Gitlab.get_exception_result(exception)
get_exception_result(exception) ==
    set_result(get_default_result, 600, FALSE, str(exception), <<>>)

\* json.loads(text)
json_loads(text) ==
    IF text.json = "invalid"
    THEN Raised(Exc("JSONDecodeError", "Expecting value: line 1 column 1 (char 0)"))
    ELSE IF text.json = "list"
    THEN Returned([type |-> "list", items |-> [i \in 1..text.n |-> i]])
    ELSE Returned([type |-> "dict", items |-> <<>>])

\* Gitlab.__process_commit_response(status, text): a dict, or json.loads raises
process_commit_response(status, text) ==
    LET result == get_default_result IN
    IF status = STATUS_OK
    THEN LET text_json == json_loads(text) IN
         IF text_json.raised THEN Raised(text_json.exc)
         ELSE IF text_json.value.type = "list"
         THEN Returned(set_result(result, 200, TRUE, None,
                                  [commits |-> text_json.value.items]))
         ELSE Returned(set_result(result, 200, FALSE,
                                  "result is not valid. result: {...}",
                                  [commits |-> <<>>]))
    ELSE Returned(set_result(result, STATUS_ERROR, TRUE,
                             "Gitlab response is not succeed", <<>>))

\* line 63, await resp.text(): aiohttp decodes the body with the charset
\* the Content-Type header declares (UTF-8 when it declares none)
resp_text(body) == Returned(body)

\* line 90, resp.content.decode('utf'): a strict UTF-8 decode
content_decode_utf(body) ==
    IF body.charset = "utf-8" THEN Returned(body)
    ELSE Raised(Exc("UnicodeDecodeError",
                    "'utf-8' codec can't decode byte 0xe9: invalid continuation byte"))

\* the rest of either try block, given the decoded text (or the exception
\* of the decode): result_from_dict(__process_commit_response(status, text))
try_process(status, text) ==
    IF text.raised THEN Raised(text.exc)
    ELSE LET d == process_commit_response(status, text.value) IN
         IF d.raised THEN Raised(d.exc) ELSE result_from_dict(d.value)

\* the body of the try block of async_get_commits: the request,
\* resp.text(), then result_from_dict(__process_commit_response(...))
try_get_commits(o) ==
    IF o.kind = "exception" THEN Raised(o.exc)
    ELSE try_process(o.status, resp_text(o.body))

\* the body of the try block of sync_get_commits: the request,
\* resp.content.decode('utf'), then result_from_dict(...)
try_sync_get_commits(o) ==
    IF o.kind = "exception" THEN Raised(o.exc)
    ELSE try_process(o.status, content_decode_utf(o.body))

\* the handler: return CommitResult.result_from_dict(get_exception_result(e))
except_get_commits(e) == result_from_dict(get_exception_result(e))

\* Gitlab.async_get_commits: try / except Exception
async_get_commits(o) ==
    LET t == try_get_commits(o) IN
    IF t.raised /\ IsException(t.exc) THEN except_get_commits(t.exc) ELSE t

\* Gitlab.sync_get_commits: try / except Exception
sync_get_commits(o) ==
    LET t == try_sync_get_commits(o) IN
    IF t.raised /\ IsException(t.exc) THEN except_get_commits(t.exc) ELSE t

---------------------------------------------------------------------------
(* plugins/hooks/gitlab_hook.py *)

\* get_conn without the test of the host
get_conn_no_host_check(c) ==
    IF ~c.password
    THEN Raised(Exc("AirflowException",
                    "An access token is required to authenticate to Gitlab."))
    ELSE Returned([client |-> "Gitlab"])

\* GitlabHook.__init__ / get_conn: the client, or AirflowException
get_conn(c) ==
    IF ~c.password
    THEN Raised(Exc("AirflowException",
                    "An access token is required to authenticate to Gitlab."))
    ELSE IF ~c.host
    THEN Raised(Exc("AirflowException", "Host is required to connect to Gitlab."))
    ELSE Returned([client |-> "Gitlab"])

---------------------------------------------------------------------------
(* plugins/triggers/gitlab_trigger.py *)

\* a dict of projects: distinct keys, in insertion order
ProjectDicts ==
    {s \in UNION {[1..n -> Repos] : n \in 0..Cardinality(Repos)} :
        \A i, j \in DOMAIN s : i # j => s[i] # s[j]}

\* GitlabRepoChangedTrigger.serialize(): the kwargs the host stores
\* (gitlab_conn_id, changes_since and check_interval are carried unchanged
\*  and decide nothing in the model; self.runs is not among the kwargs)
serialize == [projects |-> projects, check_runs |-> check_runs]

\* GitlabRepoChangedTrigger.__init__(**kwargs): the fields of a new instance
trigger_init(kwargs) ==
    [projects |-> kwargs.projects, check_runs |-> kwargs.check_runs, runs |-> 0]

\* a returned CommitResult that reports a change: success and commits
Positive(r) == r.success = TRUE /\ r.commits # <<>>

\* the fold without the test of the commit list
fold_any_success(changed, project_id, commits_result) ==
    IF commits_result.success THEN Append(changed, project_id) ELSE changed

\* lines 79-81: the fold of one query's result into changed_repos
fold(changed, project_id, commits_result) ==
    IF commits_result.success /\ Len(commits_of(commits_result)) > 0
    THEN Append(changed, project_id)
    ELSE changed

\* the end-of-cycle condition with the budget test off by one
should_yield_late(changed, r, budget) == Len(changed) > 0 \/ r > budget

\* line 85: the end-of-cycle condition
should_yield(changed, r, budget) == Len(changed) > 0 \/ r >= budget

\* lines 75-77: issue the query of a cycle for the target at position i
IssueQuery(i, cycle) ==
    /\ idx' = i
    /\ pc' = "query"
    /\ queries' = Append(queries, [cycle |-> cycle, project |-> projects[i]])

\* line 86 yields TriggerEvent(changed_repos) with the list object itself:
\* every event of this run() carries the one list, so the payloads read
\* what the list holds now
Payloads(changed) == [i \in 1..Len(events) |-> changed]

\* lines 83-88: after the for loop, yield the event or go to sleep
EndCycle(changed, r) ==
    IF should_yield(changed, r, check_runs)
    THEN /\ events' = Append(Payloads(changed), changed)
         /\ pc' = "yielded"
    ELSE /\ events' = Payloads(changed)
         /\ pc' = "sleep"

\* the top of the loop counting the attempt twice
BeginCycleDoubleCount ==
    /\ runs' = runs + 2
    /\ cycles' = cycles + 1
    /\ answers' = <<>>
    /\ IF Len(projects) = 0
       THEN /\ EndCycle(changed_repos, runs + 2)
            /\ UNCHANGED <<idx, queries>>
       ELSE /\ IssueQuery(1, cycles + 1)
            /\ events' = events

\* lines 70-77: the top of the while loop up to the next suspension point
BeginCycle ==
    /\ runs' = runs + 1
    /\ cycles' = cycles + 1
    /\ answers' = <<>>
    /\ IF Len(projects) = 0
       THEN /\ EndCycle(changed_repos, runs + 1)
            /\ UNCHANGED <<idx, queries>>
       ELSE /\ IssueQuery(1, cycles + 1)
            /\ events' = events

Init ==
    /\ task \in {"trigger", "sensor"}
    /\ conn \in [password : BOOLEAN, host : BOOLEAN]
    /\ projects \in ProjectDicts
    /\ check_runs \in (IF task = "trigger" THEN 0..MaxRuns ELSE {0})
    /\ runs = trigger_init(serialize).runs
    /\ changed_repos = <<>>
    /\ idx = 0
    /\ pc = "idle"
    /\ events = <<>>
    /\ queries = <<>>
    /\ cycles = 0
    /\ cancelled_at = "none"
    /\ error = NoExc
    /\ last_call = [mode |-> "none", outcome |-> NoOutcome, result |-> Raised(NoExc)]
    /\ xcom = <<>>
    /\ answers = <<>>
    /\ found = {}

\* run() lines 63-77: resolve the hook, then enter the first cycle
Start ==
    /\ task = "trigger"
    /\ pc = "idle"
    /\ cycles < MaxCycles
    /\ LET gitlab == get_conn(conn) IN
       IF gitlab.raised
       THEN /\ pc' = "failed"
            /\ error' = gitlab.exc
            /\ UNCHANGED <<runs, cycles, idx, queries, events, answers>>
       ELSE /\ BeginCycle
            /\ error' = error
    /\ UNCHANGED <<task, conn, projects, check_runs, changed_repos,
                   cancelled_at, last_call, xcom, found>>

\* run() lines 75-88: the awaited query completes; its result is folded and
\* the loop goes on to the next target or to the end of the cycle
QueryDone ==
    /\ task = "trigger"
    /\ pc = "query"
    /\ \E o \in Outcomes :
         LET commits_result == async_get_commits(o) IN
         /\ last_call' = [mode |-> "async", outcome |-> o, result |-> commits_result]
         /\ IF commits_result.raised
            THEN /\ pc' = "failed"
                 /\ error' = commits_result.exc
                 /\ UNCHANGED <<changed_repos, idx, queries, events,
                                answers, found>>
            ELSE LET changed == fold(changed_repos, projects[idx],
                                     commits_result.value) IN
                 /\ changed_repos' = changed
                 /\ answers' = Append(answers, [project |-> projects[idx],
                                                result |-> commits_result.value])
                 /\ found' = IF Positive(commits_result.value)
                             THEN found \cup {projects[idx]} ELSE found
                 /\ error' = error
                 /\ IF idx < Len(projects)
                    THEN /\ IssueQuery(idx + 1, cycles)
                         /\ events' = Payloads(changed)
                    ELSE /\ EndCycle(changed, runs)
                         /\ UNCHANGED <<idx, queries>>
    /\ UNCHANGED <<task, conn, projects, check_runs, runs, cycles,
                   cancelled_at, xcom>>

\* the host asks the generator for another event after a yield: run()
\* goes on from line 86 to the sleep of line 88
ResumeAfterYield ==
    /\ task = "trigger"
    /\ pc = "yielded"
    /\ pc' = "sleep"
    /\ UNCHANGED <<task, conn, projects, check_runs, runs, changed_repos, idx,
                   events, queries, cycles, cancelled_at, error, last_call, xcom,
                   answers, found>>

\* run() line 88 then 69-77: the sleep ends and the next cycle begins
Wake ==
    /\ task = "trigger"
    /\ pc = "sleep"
    /\ cycles < MaxCycles
    /\ BeginCycle
    /\ UNCHANGED <<task, conn, projects, check_runs, changed_repos,
                   cancelled_at, error, last_call, xcom, found>>

\* a cancellation that the coroutine swallows: it stays where it was
CancelSwallowed ==
    /\ task = "trigger"
    /\ pc \in {"query", "sleep", "yielded"}
    /\ cancelled_at = "none"
    /\ cancelled_at' = pc
    /\ UNCHANGED <<task, conn, projects, check_runs, runs, changed_repos, idx, pc,
                   events, queries, cycles, error, last_call, xcom,
                   answers, found>>

\* the host cancels the task at a suspension point: CancelledError is
\* raised at the await (it is no Exception, so gitlab.py line 65 does not
\* catch it) or the generator is closed at the yield; run() ends
Cancel ==
    /\ task = "trigger"
    /\ pc \in {"query", "sleep", "yielded"}
    /\ cancelled_at' = pc
    /\ pc' = "cancelled"
    /\ UNCHANGED <<task, conn, projects, check_runs, runs, changed_repos, idx,
                   events, queries, cycles, error, last_call, xcom,
                   answers, found>>

\* the host suspends a session that has not fired and later resumes it from
\* the serialized form: a new instance built from serialize()'s kwargs,
\* whose run() starts over with a fresh local changed_repos
Restart ==
    /\ task = "trigger"
    /\ pc \in {"query", "sleep"}
    /\ events = <<>>
    /\ LET t == trigger_init(serialize) IN
       /\ projects' = t.projects
       /\ check_runs' = t.check_runs
       /\ runs' = t.runs
    /\ changed_repos' = <<>>
    /\ answers' = <<>>
    /\ found' = {}
    /\ idx' = 0
    /\ pc' = "idle"
    /\ UNCHANGED <<task, conn, events, queries, cycles, cancelled_at, error,
                   last_call, xcom>>

---------------------------------------------------------------------------
(* plugins/sensors/gitlab_sensor.py *)

\* poke() lines 52-56 from position i: the list changed_repos, or the
\* exception a query raised
RECURSIVE poke_loop(_, _, _, _)
poke_loop(ps, os, i, changed) ==
    IF i > Len(ps) THEN Returned(changed)
    ELSE LET commits == sync_get_commits(os[i]) IN
         IF commits.raised THEN Raised(commits.exc)
         ELSE poke_loop(ps, os, i + 1, fold(changed, ps[i], commits.value))

\* the number of queries poke() makes: up to the first one that raises
RECURSIVE poke_calls(_, _)
poke_calls(os, i) ==
    IF i > Len(os) THEN Len(os)
    ELSE IF sync_get_commits(os[i]).raised THEN i
    ELSE poke_calls(os, i + 1)

\* the results sync_get_commits returned to poke(), up to the first raise
RECURSIVE poke_answers(_, _, _)
poke_answers(ps, os, i) ==
    IF i > Len(ps) THEN <<>>
    ELSE LET commits == sync_get_commits(os[i]) IN
         IF commits.raised THEN <<>>
         ELSE <<[project |-> ps[i], result |-> commits.value]>>
                 \o poke_answers(ps, os, i + 1)

\* GitLabRepoChangeDetectionSensor.poke
Poke ==
    /\ task = "sensor"
    /\ pc = "idle"
    /\ LET hook == get_conn(conn) IN
       IF hook.raised
       THEN /\ pc' = "failed"
            /\ error' = hook.exc
            /\ UNCHANGED <<changed_repos, queries, cycles, last_call, xcom,
                           answers, found>>
       ELSE \E os \in [1..Len(projects) -> Outcomes] :
              LET r == poke_loop(projects, os, 1, <<>>)
                  n == poke_calls(os, 1)
              IN
              /\ cycles' = cycles + 1
              /\ queries' = [i \in 1..n |-> [cycle |-> cycles + 1,
                                             project |-> projects[i]]]
              /\ answers' = poke_answers(projects, os, 1)
              /\ found' = {projects[i] : i \in
                             {k \in 1..Len(poke_answers(projects, os, 1)) :
                                Positive(poke_answers(projects, os, 1)[k].result)}}
              /\ last_call' = IF n = 0 THEN last_call
                              ELSE [mode |-> "sync", outcome |-> os[n],
                                    result |-> sync_get_commits(os[n])]
              /\ IF r.raised
                 THEN /\ pc' = "failed"
                      /\ error' = r.exc
                      /\ UNCHANGED <<changed_repos, xcom>>
                 ELSE /\ changed_repos' = r.value
                      /\ xcom' = Append(xcom, r.value)
                      /\ pc' = IF Len(r.value) > 0 THEN "poke_true" ELSE "poke_false"
                      /\ error' = error
    /\ UNCHANGED <<task, conn, projects, check_runs, runs, idx, events,
                   cancelled_at>>

\* AwaitGitLabRepoChangeDetectionSensor.execute_completed: the host resumes
\* the deferred task with the payload of the first event and the task
\* pushes it to XCom; the payload is read when the host hands it over, at
\* the yield or any time after it
ExecuteCompleted ==
    /\ task = "trigger"
    /\ events # <<>>
    /\ xcom = <<>>
    /\ xcom' = Append(xcom, events[1])
    /\ UNCHANGED <<task, conn, projects, check_runs, runs, changed_repos, idx, pc,
                   events, queries, cycles, cancelled_at, error, last_call,
                   answers, found>>

---------------------------------------------------------------------------
Next ==
    \/ Start
    \/ QueryDone
    \/ ResumeAfterYield
    \/ Wake
    \/ Cancel
    \/ Restart
    \/ Poke
    \/ ExecuteCompleted

Spec == Init /\ [][Next]_vars

---------------------------------------------------------------------------
(* Properties *)

ConnOk == conn.password /\ conn.host

\* a query that failed: transport exception or timeout, non-OK status,
\* or a body that is not a JSON list
FailedQuery(o) ==
    \/ o.kind = "exception"
    \/ o.kind = "response" /\ (o.status # 200 \/ o.body.json # "list")

NoDuplicates(seq) == \A i, j \in 1..Len(seq) : i # j => seq[i] # seq[j]

\* every configured target was queried in the current cycle and every
\* query of it has returned
CycleComplete ==
    /\ pc # "query"
    /\ \A i \in 1..Len(projects) :
         \E k \in 1..Len(queries) :
            queries[k] = [cycle |-> cycles, project |-> projects[i]]

\* a step in which run() reaches the end of the for loop (line 83)
CycleEnds ==
    /\ pc \in {"idle", "query", "sleep"}
    /\ pc' \in {"sleep", "yielded"}
    /\ (pc = "sleep" => cycles' # cycles)

\* C1: with a budget B >= 1 a session ends only by emitting: run() never
\* ends with an exception, the attempt counter never exceeds B before
\* the first event, the first event comes at attempt <= B, and an empty
\* first event comes at attempt B exactly.
C1_EmitsWithinBudget ==
    (task = "trigger" /\ ConnOk /\ check_runs >= 1) =>
        /\ pc # "failed"
        /\ (events = <<>> => runs <= check_runs)
        /\ (pc = "yielded" /\ Len(events) = 1 =>
               /\ runs <= check_runs
               /\ (events[1] = <<>> => runs = check_runs))

\* C2: an event is emitted only by a step that ends a complete cycle, its
\* payload is the accumulated changed_repos, and a step that ends a cycle
\* emits if and only if changed_repos is non-empty or runs has reached
\* check_runs; the first event, when empty and the budget is at least 1,
\* is emitted with runs equal to check_runs.
C2_EmitIffEndOfCycleCondition ==
    [][task = "trigger" =>
        /\ (Len(events') # Len(events) =>
               /\ CycleEnds
               /\ pc' = "yielded"
               /\ CycleComplete'
               /\ Len(events') = Len(events) + 1
               /\ events'[Len(events')] = changed_repos')
        /\ (CycleEnds =>
               /\ CycleComplete'
               /\ (Len(events') # Len(events) <=>
                      (Len(changed_repos') > 0 \/ runs' >= check_runs)))
        /\ (events = <<>> /\ events' = << <<>> >> /\ check_runs >= 1 =>
               runs' = check_runs)
    ]_vars

\* C2 witness: two targets, budget 2, no change in either cycle: the empty
\* event is emitted at the end of the second complete cycle.
C2_Witness ==
    /\ pc = "yielded"
    /\ events = << <<>> >>
    /\ Len(projects) = 2
    /\ check_runs = 2
    /\ runs = 2
    /\ Len(queries) = 4

\* C3: once an event has been emitted nothing more happens: no further
\* cycle, query, sleep, increment of runs or event.
C3_TerminatedIsFinal ==
    [][(task = "trigger" /\ check_runs >= 1 /\ events # <<>>) =>
        /\ runs' = runs
        /\ cycles' = cycles
        /\ queries' = queries
        /\ events' = events
        /\ pc' # "sleep"
    ]_vars

\* C4: a failed query never ends the session: run() is not left with an
\* exception after a query that failed.
C4_FailedQueryNeverAborts ==
    (last_call.mode = "async" /\ FailedQuery(last_call.outcome)) => pc # "failed"

\* C5: when the network call raises, the query (either mode) returns
\* CommitResult(600, str(exception), False, []).
C5_TransportErrorResult ==
    last_call.outcome.kind = "exception" =>
        /\ ~last_call.result.raised
        /\ last_call.result.value =
              CommitResult(600, str(last_call.outcome.exc), FALSE, <<>>)

\* C6: for a response whose status is not 200 the query (either mode)
\* returns CommitResult(600, "Gitlab response is not succeed", False, []).
C6_NonOkStatusResult ==
    (last_call.outcome.kind = "response" /\ last_call.outcome.status # 200) =>
        /\ ~last_call.result.raised
        /\ last_call.result.value =
              CommitResult(600, "Gitlab response is not succeed", FALSE, <<>>)

\* C7: for a 200 response whose body cannot be parsed the query returns a
\* result with success false, no commits and status 200.
C7_MalformedJsonResult ==
    (/\ last_call.outcome.kind = "response"
     /\ last_call.outcome.status = 200
     /\ last_call.outcome.body.json = "invalid") =>
        /\ ~last_call.result.raised
        /\ last_call.result.value.success = FALSE
        /\ commits_of(last_call.result.value) = <<>>
        /\ last_call.result.value.status = 200

\* C8: within one run() the list changed_repos never loses an identifier
\* and never holds an identifier twice.
C8_ChangeSetMonotoneNoDuplicates ==
    [][(task = "trigger" /\ check_runs >= 1 /\ pc' # "idle") =>
        /\ \A i \in 1..Len(changed_repos) :
              \E j \in 1..Len(changed_repos') :
                 changed_repos'[j] = changed_repos[i]
        /\ NoDuplicates(changed_repos')
    ]_vars

\* C9: a resumption from the serialized form keeps runs and changed_repos,
\* so a session with budget B >= 1 that has not fired has started at most
\* B cycles, over all its instances.
C9_ResumeKeepsSessionState ==
    [][task = "trigger" =>
        /\ (pc # "idle" /\ pc' = "idle" =>
               runs' = runs /\ changed_repos' = changed_repos)
        /\ (events' = <<>> /\ check_runs >= 1 => cycles' <= check_runs)
    ]_vars

\* C10: after the host cancelled the session at a suspension point no query
\* is issued, no cycle starts, nothing is folded and no event is emitted.
C10_CancelIsFinal ==
    [][cancelled_at # "none" =>
        /\ pc = "cancelled"
        /\ UNCHANGED <<pc, runs, cycles, queries, events, changed_repos, idx>>
    ]_vars

\* C10 witness: cancelled while the second query of a cycle was awaited,
\* after the first had been folded; and no event was emitted.
C10_Witness ==
    /\ cancelled_at = "query"
    /\ pc = "cancelled"
    /\ idx = 2
    /\ Len(changed_repos) = 1
    /\ events = <<>>

\* C11: when the connection has no password or no host, run() (and poke())
\* ends with AirflowException before any query is issued and before the
\* first cycle starts: no cycle runs and no event is emitted.
C11_ConfigErrorBeforeAnyQuery ==
    ~ConnOk =>
        /\ queries = <<>>
        /\ last_call.mode = "none"
        /\ cycles = 0
        /\ runs = 0
        /\ events = <<>>
        /\ xcom = <<>>
        /\ pc \in {"idle", "failed"}
        /\ (pc = "failed" => error.type = "AirflowException")

\* C11 witness: a trigger with two targets whose connection has a password
\* but no host has failed with the configuration error.
C11_Witness ==
    /\ task = "trigger"
    /\ conn = [password |-> TRUE, host |-> FALSE]
    /\ Len(projects) = 2
    /\ pc = "failed"
    /\ error.type = "AirflowException"
    /\ queries = <<>>

Range(seq) == {seq[i] : i \in 1..Len(seq)}

\* run() or poke() stands at the end of a cycle
AtEndOfCycle == pc \in {"sleep", "yielded", "poke_true", "poke_false"}

\* C12: at the end of each cycle changed_repos holds a target's identifier
\* if and only if some query for that target in this run() returned
\* success with a non-empty commit list; the sensor's poke() pushes that
\* list and returns whether it is non-empty.
C12_ChangeSetIffPositiveResult ==
    AtEndOfCycle =>
        /\ Range(changed_repos) = found
        /\ found \subseteq Range(projects)
        /\ (pc = "yielded" => Range(events[Len(events)]) = found)
        /\ (pc = "poke_true" => xcom = <<changed_repos>> /\ found # {})
        /\ (pc = "poke_false" => xcom = <<changed_repos>> /\ found = {})

\* C12 witness: of two targets the first answered with an empty list and
\* the second with a commit; the event carries the second only.
C12_Witness ==
    /\ pc = "yielded"
    /\ projects = <<101, 202>>
    /\ Len(answers) = 2
    /\ answers[1].result.success /\ answers[1].result.commits = <<>>
    /\ Positive(answers[2].result)
    /\ events = << <<202>> >>

\* C13: for the same remote outcome the two modes agree: both return the
\* same CommitResult or both raise.
C13_SyncAsyncEquivalent ==
    last_call.mode # "none" =>
        LET a == async_get_commits(last_call.outcome)
            s == sync_get_commits(last_call.outcome)
        IN /\ a.raised = s.raised
           /\ (~a.raised => a.value = s.value)

\* C14: a trigger given check_runs = 0 is rejected: it runs no cycle,
\* issues no query and emits no event.
C14_ZeroBudgetRejected ==
    (task = "trigger" /\ check_runs = 0) =>
        /\ runs = 0
        /\ cycles = 0
        /\ queries = <<>>
        /\ events = <<>>

\* the queries issued in the current cycle, in the order of their issue
CycleQueries == SelectSeq(queries, LAMBDA q : q.cycle = cycles)

\* C15: within a cycle the queries are issued without waiting for one
\* another: a query is issued only while no query of the cycle has yet
\* completed (so with two or more targets the queries of a cycle are in
\* flight together), and changed_repos is folded into only once all the
\* cycle's queries have completed.
C15_QueriesIssuedConcurrently ==
    [][(task = "trigger" /\ check_runs >= 1 /\ Len(projects) >= 2) =>
        /\ (Len(queries') > Len(queries) => answers' = <<>>)
        /\ (changed_repos' # changed_repos /\ pc' # "idle" =>
               Len(answers') = Len(projects))
    ]_vars

\* the number of queries issued for a target in a cycle
QueryCount(c, p) ==
    Cardinality({k \in 1..Len(queries) : queries[k] = [cycle |-> c, project |-> p]})

\* C16: no target is queried twice in a cycle, and once run() has left the
\* for loop of a cycle (it sleeps, has yielded, or has ended with an
\* exception) every target has been queried exactly once in that cycle,
\* whatever the queries of the other targets returned.
C16_EachTargetOncePerCycle ==
    (task = "trigger" /\ ConnOk /\ check_runs >= 1) =>
        /\ \A c \in 1..cycles : \A p \in Range(projects) : QueryCount(c, p) <= 1
        /\ (pc \in {"sleep", "yielded", "failed"} =>
               \A p \in Range(projects) : QueryCount(cycles, p) = 1)

\* C17: within one run() the cycles follow one another: a cycle starts
\* only at the start of run() (no sleep before it) or when the sleep that
\* follows a complete, decided cycle ends; each start increments runs by
\* one and nothing else changes runs; a query is issued only for the
\* current cycle; the sleep is left only by starting the next cycle.
C17_CyclesSequential ==
    [][task = "trigger" =>
        /\ (cycles' # cycles =>
               /\ cycles' = cycles + 1
               /\ runs' = runs + 1
               /\ \/ pc = "idle" /\ runs = 0
                  \/ /\ pc = "sleep"
                     /\ Len(CycleQueries) = Len(projects)
                     /\ Len(answers) = Len(projects))
        /\ (runs' # runs /\ pc' # "idle" => cycles' = cycles + 1)
        /\ (queries' # queries =>
               /\ Len(queries') = Len(queries) + 1
               /\ queries'[Len(queries')].cycle = cycles'
               /\ \A k \in 1..Len(queries) :
                     queries'[k] = queries[k] /\ queries[k].cycle <= cycles')
        /\ (pc = "sleep" /\ pc' \notin {"sleep", "cancelled", "idle"} =>
               cycles' = cycles + 1)
        /\ (pc' = "sleep" /\ pc # "sleep" => pc \in {"idle", "query", "yielded"})
    ]_vars

\* C17 witness: cycle 2 of a run() over two targets has issued its first
\* query, after the two queries of cycle 1 and one sleep.
C17_Witness ==
    /\ task = "trigger"
    /\ Len(projects) = 2
    /\ runs = 2
    /\ cycles = 2
    /\ pc = "query"
    /\ idx = 1
    /\ queries = <<[cycle |-> 1, project |-> projects[1]],
                   [cycle |-> 1, project |-> projects[2]],
                   [cycle |-> 2, project |-> projects[1]]>>

\* the orders in which n results can be folded
FoldOrders(n) ==
    {f \in [1..n -> 1..n] : \A i, j \in 1..n : f[i] = f[j] => i = j}

\* the fold of lines 79-81 applied to the cycle's results in the order f,
\* from position k on
RECURSIVE FoldInOrder(_, _, _)
FoldInOrder(f, k, changed) ==
    IF k > Len(answers) THEN changed
    ELSE FoldInOrder(f, k + 1,
                     fold(changed, answers[f[k]].project, answers[f[k]].result))

OkList(o) ==
    o.kind = "response" /\ o.status = 200 /\ o.body.json = "list"

\* C19: a CommitResult the commit query returns has success true exactly
\* when the response was HTTP 200 with a body that parsed as a list; a
\* result with success false has no commits; a 200 response whose body
\* parses to a non-list value gives success false with status 200.
C19_SuccessIffOkList ==
    (last_call.mode # "none" /\ ~last_call.result.raised) =>
        LET r == last_call.result.value
            o == last_call.outcome
        IN /\ r.success <=> OkList(o)
           /\ (~r.success => commits_of(r) = <<>>)
           /\ (/\ o.kind = "response"
               /\ o.status = 200
               /\ o.body.json = "object")
                 => (r.success = FALSE /\ r.status = 200)

\* C19 witness: a query answered by HTTP 200 with a JSON object has
\* returned a result with success false and status 200.
C19_Witness ==
    /\ last_call.mode # "none"
    /\ ~last_call.result.raised
    /\ last_call.outcome.kind = "response"
    /\ last_call.outcome.body.json = "object"
    /\ last_call.result.value.success = FALSE
    /\ last_call.result.value.status = 200

\* the targets of the cycle that has just ended whose query returned
\* success with a non-empty commit list, in the order they were queried
PositiveTargets ==
    LET pos == SelectSeq(answers, LAMBDA a : Positive(a.result))
    IN [i \in 1..Len(pos) |-> pos[i].project]

\* C20: until the first event every cycle that has ended left changed_repos
\* empty; the first event, when it is emitted, carries exactly the targets
\* whose query in the emitting cycle returned success with commits, in the
\* targets' order, without duplicates, each of them a configured target;
\* and the payload the first event carries stays what it was.
C20_FirstEventFromFinalCycle ==
    [][(task = "trigger" /\ check_runs >= 1) =>
        /\ (events = <<>> /\ (pc = "sleep" \/ (pc = "query" /\ idx = 1)) =>
               changed_repos = <<>>)
        /\ (events = <<>> /\ events' # <<>> =>
               /\ Len(answers') = Len(projects)
               /\ \A i \in 1..Len(answers') : answers'[i].project = projects[i]
               /\ events'[1] = PositiveTargets'
               /\ NoDuplicates(events'[1])
               /\ Range(events'[1]) \subseteq Range(projects))
        /\ (events # <<>> => events'[1] = events[1])
    ]_vars

====
